---- MODULE Spec2Model ----
(***************************************************************************)
(* EISH: an interactive shell front-end (src/src/main.rs).                 *)
(*                                                                         *)
(* The model follows the program: main's read-eval loop, the key handler   *)
(* of Shell::get_input (one action per key event), and the dispatcher      *)
(* Shell::handle_input (built-ins, spawn / wait with the raw-mode          *)
(* bracket).  Strings are sequences of characters; every index the code    *)
(* keeps (idx, input.len()) is a byte offset, as in Rust's String.         *)
(***************************************************************************)
EXTENDS Integers, Sequences, FiniteSets

VARIABLES
    raw,             \* terminal raw mode is enabled (process-wide)
    pc,              \* position of the process (see PCs)
    path,            \* Shell.path
    history,         \* Shell.history
    input,           \* get_input: the edit buffer
    idx,             \* get_input: the cursor, a byte offset into input
    input_idx,       \* get_input: index of the tail slot
    history_idx,     \* get_input: history position
    result,          \* the Input get_input returned
    ret,             \* what handle_input returned: "none", "Ok(false)", "Ok(true)", "Err"
    child,           \* a spawned child process exists (spawned, not yet waited for)
    msgs,            \* texts handle_input wrote in the current call
    spawned,         \* what cmd.spawn() returned for the submitted line
    overflow_checks, \* the build panics on integer overflow (debug) or wraps (release)
    free,            \* the user types freely (TRUE) or follows script (FALSE)
    script,          \* key events still to come when ~free
    history0,        \* history as it was when the current edit session began
    seen,            \* the keys of the current edit session: "", "Up", "UpEnter", "other"
    nav,             \* the run of Up then Down keys the session is in (see NavAfter)
    fault            \* what ended the process abnormally, "" if nothing

vars == <<raw, pc, path, history, input, idx, input_idx, history_idx, result, ret,
          child, msgs, spawned, overflow_checks, free, script, history0, seen, nav,
          fault>>

----------------------------------------------------------------------------
(* Bounds of the model *)

\* free typing: longest buffer (in characters) the user types
MaxLen == 1
\* longest history with which a new edit session still begins
MaxHist == 2
\* longest run of Up keys that is followed
MaxNav == 3

\* stand-in for usize::MAX, the value 0 - 1 wraps to; only its being beyond
\* every index matters
UsizeMax == 2147483647

----------------------------------------------------------------------------
(* Strings: sequences of characters with their UTF-8 width *)

\* characters of the free-typing keyboard: one of width 1, one of width 2
FreeChars == {"/", "é"}

Utf8Len(c) == IF c = "é" THEN 2 ELSE 1

RECURSIVE StrLen(_)
\* String::len: the length in bytes
StrLen(s) == IF s = <<>> THEN 0 ELSE Utf8Len(Head(s)) + StrLen(Tail(s))

\* byte offset at which character k+1 starts (k = Len(s): the end)
Offset(s, k) == StrLen(SubSeq(s, 1, k))

\* str::is_char_boundary
IsCharBoundary(s, i) == \E k \in 0..Len(s) : Offset(s, k) = i

\* number of characters before byte offset i (i a char boundary)
CharsBefore(s, i) == CHOOSE k \in 0..Len(s) : Offset(s, k) = i

\* String::insert(i, c) panics unless i is a char boundary
InsertPanics(s, i) == ~IsCharBoundary(s, i)

StrInsert(s, i, c) ==
    LET k == CharsBefore(s, i)
    IN  SubSeq(s, 1, k) \o <<c>> \o SubSeq(s, k + 1, Len(s))

\* String::remove(i) panics unless i is the start of a character of s
RemovePanics(s, i) == ~(IsCharBoundary(s, i) /\ i < StrLen(s))

StrRemove(s, i) ==
    LET k == CharsBefore(s, i)
    IN  SubSeq(s, 1, k) \o SubSeq(s, k + 2, Len(s))

\* Vec::get with a 0-based index: <<entry>> or <<>> (None)
Get(h, i) == IF i >= 0 /\ i < Len(h) THEN <<h[i + 1]>> ELSE <<>>

\* h[i] = v with a 0-based index
SetAt(h, i, v) == [h EXCEPT ![i + 1] = v]

\* Vec::pop
Pop(h) == SubSeq(h, 1, Len(h) - 1)

----------------------------------------------------------------------------
(* Key events: what event::read() delivers *)

Key(code, chr) == [code |-> code, chr |-> chr]

\* the keys of a user typing freely
FreeKeys ==
    {Key("Char", c) : c \in FreeChars}
      \cup {Key("Ctrl", c) : c \in {"d", "c", "l", "z"}}
      \cup {Key(k, "") : k \in {"Enter", "Backspace", "Left", "Right", "Up", "Down", "Other"}}

\* the characters of a string typed one key at a time
Typed(s) == [i \in 1..Len(s) |-> Key("Char", s[i])]

Enter == <<Key("Enter", "")>>

\* scripted sessions: the command lines of the dispatcher, typed and submitted
Scripts ==
    { Typed(<<"e", "x", "i", "t">>) \o Enter,
      Typed(<<" ", "e", "x", "i", "t", " ", "a">>) \o Enter,
      Typed(<<"c", "d">>) \o Enter,
      Typed(<<"c", "d", " ", "a">>) \o Enter,
      Typed(<<"c", "d", " ", "~", "/", "a">>) \o Enter,
      Typed(<<"c", "d", " ", "a", " ", "b">>) \o Enter,
      Typed(<<"l", "s", " ", "a">>) \o Enter \o Typed(<<"l", "s">>) \o Enter,
      Typed(<<"/", "/", " ", "a">>) \o Enter \o Enter,
      Typed(<<" ">>) \o Enter,
      Typed(<<"l", "s">>) \o Enter \o Typed(<<"c", "d", " ", "a">>) \o Enter
          \o <<Key("Up", ""), Key("Up", "")>> \o Enter,
      Typed(<<"a", "b">>) \o <<Key("Left", "")>> \o Typed(<<"c">>)
          \o <<Key("Left", ""), Key("Left", ""), Key("Right", ""), Key("Backspace", ""),
               Key("Backspace", "")>>,
      Typed(<<"é">>) \o <<Key("Right", "")>> \o Typed(<<"a">>)
          \o <<Key("Backspace", ""), Key("Backspace", "")>>,
      Typed(<<"a", "é">>) \o Enter \o <<Key("Up", ""), Key("Left", "")>>
          \o Typed(<<"b">>),
      Typed(<<"é", "a">>) }

\* characters a script may type
Chars == FreeChars \cup {"e", "x", "i", "t", "c", "d", "l", "s", "a", "b", " ", "~"}

\* event::read() delivers key k
Reads(k) ==
    /\ pc = "editing"
    /\ IF free THEN k \in FreeKeys ELSE script # <<>> /\ Head(script) = k
    /\ script' = IF free THEN script ELSE Tail(script)

----------------------------------------------------------------------------
(* Process-wide outcomes *)

\* a hook that leaves the terminal mode as it is
PanicHookKeepsMode == raw

\* the panic hook main installs: disable_raw_mode(), then the default hook
PanicHook == FALSE

\* main's last statement: disable_raw_mode()
MainTeardown == FALSE

\* a panic anywhere: the hook runs, the process ends
Panic(why) ==
    /\ pc' = "panicked"
    /\ raw' = PanicHook
    /\ fault' = why

\* get_input returns Err: `while let Ok(..)` ends, main tears down and returns
GetInputErr ==
    /\ pc' = "done"
    /\ raw' = MainTeardown
    /\ fault' = fault

\* the session goes on
Editing ==
    /\ pc' = "editing"
    /\ raw' = raw
    /\ fault' = fault

\* the keys of a session so far, as far as the properties tell them apart
SeenAfter(code) ==
    IF seen = "" /\ code = "Up" THEN "Up"
    ELSE IF seen = "Up" /\ code = "Enter" THEN "UpEnter"
    ELSE IF seen = "Up" /\ code = "CtrlC" THEN "UpCtrlC"
    ELSE IF seen \in {"", "Chars"} /\ code = "Char" THEN "Chars"
    ELSE "other"

\* no run of Up and Down keys is followed
NoNav == [phase |-> "none", depth |-> 0, base |-> <<>>, ok |-> FALSE]

\* The run Up^k Down^j of the session: base is the buffer before the first Up,
\* depth is k - j, ok says that the first Up found the user at the tail or on
\* an unedited recalled entry and that no Up of the run was pressed at
\* position 0.  Any other key ends the run.
NavAfter(code) ==
    IF code = "Up"
    THEN IF nav.phase = "ups"
         THEN IF nav.depth < MaxNav
              THEN [nav EXCEPT !.depth = nav.depth + 1,
                               !.ok = nav.ok /\ history_idx # 0]
              ELSE NoNav
         ELSE [phase |-> "ups", depth |-> 1, base |-> input,
               ok |-> /\ history_idx # 0
                      /\ \/ history_idx = input_idx
                         \/ input = history[history_idx + 1]]
    ELSE IF code = "Down" /\ nav.phase \in {"ups", "downs"} /\ nav.depth >= 1
    THEN [nav EXCEPT !.phase = "downs", !.depth = nav.depth - 1]
    ELSE NoNav

NoInput == [kind |-> "none", text |-> <<>>]

----------------------------------------------------------------------------
(* main, before the loop *)

Init ==
    /\ raw = TRUE
    /\ pc = "start"
    /\ path = <<"/", "w">>
    /\ history = <<>>
    /\ input = <<>>
    /\ idx = 0
    /\ input_idx = 0
    /\ history_idx = 0
    /\ result = NoInput
    /\ ret = "none"
    /\ child = FALSE
    /\ msgs = <<>>
    /\ spawned = "none"
    /\ overflow_checks \in BOOLEAN
    /\ \/ free = TRUE /\ script = <<>>
       \/ free = FALSE /\ script \in Scripts
    /\ history0 = <<>>
    /\ seen = ""
    /\ nav = NoNav
    /\ fault = ""

\* sh.write("Welcome to EISH").unwrap()
Welcome ==
    /\ pc = "start"
    /\ \E ok \in BOOLEAN :
         IF ok THEN pc' = "loop" /\ raw' = raw /\ fault' = fault
         ELSE Panic("write")
    /\ UNCHANGED <<path, history, input, idx, input_idx, history_idx, result, ret,
                   child, msgs, overflow_checks, spawned, free, script, history0, seen, nav>>

----------------------------------------------------------------------------
(* Shell::get_input *)

\* a session begins: the tail slot is pushed, the first frame is drawn
BeginSession ==
    /\ pc = "loop"
    /\ Len(history) <= MaxHist
    /\ input' = <<>>
    /\ idx' = 0
    /\ input_idx' = Len(history)
    /\ history_idx' = Len(history)
    /\ history' = Append(history, <<>>)
    /\ history0' = history
    /\ seen' = ""
    /\ nav' = NoNav
    /\ result' = NoInput
    /\ ret' = "none"
    /\ msgs' = <<>>
    /\ spawned' = "none"
    /\ \E ok \in BOOLEAN : IF ok THEN Editing ELSE GetInputErr
    /\ UNCHANGED <<path, child, overflow_checks, free, script>>

\* drawing the frame or reading the event fails
TermError ==
    /\ pc = "editing"
    /\ GetInputErr
    /\ UNCHANGED <<path, history, input, idx, input_idx, history_idx, result, ret,
                   child, msgs, overflow_checks, spawned, free, script, history0, seen, nav>>

\* KeyCode::Char(chr) without CONTROL
KeyChar ==
    \E c \in Chars :
        /\ Reads(Key("Char", c))
        /\ free => Len(input) < MaxLen
        /\ seen' = SeenAfter("Char") /\ nav' = NavAfter("Char")
        /\ IF InsertPanics(input, idx)
           THEN Panic("insert") /\ UNCHANGED <<input, idx>>
           ELSE /\ input' = StrInsert(input, idx, c)
                /\ idx' = idx + 1
                /\ Editing
        /\ UNCHANGED <<path, history, input_idx, history_idx, result, ret, child, msgs,
                       overflow_checks, spawned, free, history0>>

\* a guard that lets control+d exit whatever the buffer holds
CtrlDExitsAlways(s) == TRUE

\* the match guard of control+d: input.is_empty()
CtrlDExits(s) == s = <<>>

\* control+d
KeyCtrlD ==
    /\ Reads(Key("Ctrl", "d"))
    /\ seen' = SeenAfter("Ctrl") /\ nav' = NavAfter("Ctrl")
    /\ IF CtrlDExits(input)
       THEN /\ result' = [kind |-> "Exit", text |-> <<>>]
            /\ pc' = "handle_input"
            /\ raw' = raw
            /\ fault' = fault
       ELSE Editing /\ result' = result
    /\ UNCHANGED <<path, history, input, idx, input_idx, history_idx, ret, child, msgs,
                   overflow_checks, spawned, free, history0>>

\* a drain that removes nothing
DrainKeeps(s) == s

\* input.drain(..): what is left of the buffer
Drained(s) == <<>>

\* control+c
KeyCtrlC ==
    /\ Reads(Key("Ctrl", "c"))
    /\ seen' = SeenAfter("CtrlC") /\ nav' = NavAfter("CtrlC")
    /\ input' = Drained(input)
    /\ idx' = 0
    /\ \E ok \in BOOLEAN : IF ok THEN Editing ELSE GetInputErr
    /\ UNCHANGED <<path, history, input_idx, history_idx, result, ret, child, msgs,
                   overflow_checks, spawned, free, history0>>

\* control+l: the screen is cleared; control with any other character: nothing
KeyCtrlOther ==
    \E c \in {"l", "z"} :
        /\ Reads(Key("Ctrl", c))
        /\ seen' = SeenAfter("Ctrl") /\ nav' = NavAfter("Ctrl")
        /\ Editing
        /\ UNCHANGED <<path, history, input, idx, input_idx, history_idx, result, ret,
                       child, msgs, overflow_checks, spawned, free, history0>>

\* usize `n - 1` in a build without overflow checks
WrappingDec(n) == IF n = 0 THEN UsizeMax ELSE n - 1

\* usize `n - 1` panics in a build with overflow checks
DecOverflows(n) == overflow_checks /\ n = 0

\* a reconciliation that writes the entry the user navigated to
FinalizeAtPosition(h, h_idx, i_idx, text) ==
    LET entry == Get(h, WrappingDec(h_idx))
    IN  IF Len(entry) = 1
        THEN IF entry[1] # text THEN SetAt(h, h_idx, text) ELSE Pop(h)
        ELSE SetAt(h, h_idx, text)

\* the reconciliation of the tail slot on submit
Finalize(h, h_idx, i_idx, text) ==
    LET entry == Get(h, WrappingDec(h_idx))
    IN  IF Len(entry) = 1
        THEN IF entry[1] # text THEN SetAt(h, i_idx, text) ELSE Pop(h)
        ELSE SetAt(h, i_idx, text)

\* KeyCode::Enter: newline, leave the loop, collapse the frame, finalize
KeyEnter ==
    /\ Reads(Key("Enter", ""))
    /\ seen' = SeenAfter("Enter") /\ nav' = NavAfter("Enter")
    /\ \E ok \in BOOLEAN :
         IF ~ok
         THEN GetInputErr /\ UNCHANGED <<history, result>>
         ELSE IF DecOverflows(history_idx)
         THEN Panic("finalize: overflow") /\ UNCHANGED <<history, result>>
         ELSE /\ history' = Finalize(history, history_idx, input_idx, input)
              /\ result' = [kind |-> "Command", text |-> input]
              /\ pc' = "handle_input"
              /\ raw' = raw
              /\ fault' = fault
    /\ UNCHANGED <<path, input, idx, input_idx, history_idx, ret, child, msgs,
                   overflow_checks, spawned, free, history0>>

\* the guard of KeyCode::Backspace
BackspaceActs(s, i) == s # <<>>

\* KeyCode::Backspace
KeyBackspace ==
    /\ Reads(Key("Backspace", ""))
    /\ seen' = SeenAfter("Backspace") /\ nav' = NavAfter("Backspace")
    /\ IF ~BackspaceActs(input, idx)
       THEN Editing /\ UNCHANGED <<input, idx>>
       ELSE IF DecOverflows(idx)
       THEN Panic("backspace: overflow") /\ UNCHANGED <<input, idx>>
       ELSE IF RemovePanics(input, WrappingDec(idx))
       THEN Panic("backspace: remove") /\ UNCHANGED <<input, idx>>
       ELSE /\ input' = StrRemove(input, idx - 1)
            /\ idx' = idx - 1
            /\ Editing
    /\ UNCHANGED <<path, history, input_idx, history_idx, result, ret, child, msgs,
                   overflow_checks, spawned, free, history0>>

\* the guard of KeyCode::Left
LeftMoves(s, i) == i # 0

\* KeyCode::Left
KeyLeft ==
    /\ Reads(Key("Left", ""))
    /\ seen' = SeenAfter("Left") /\ nav' = NavAfter("Left")
    /\ idx' = IF LeftMoves(input, idx) THEN idx - 1 ELSE idx
    /\ Editing
    /\ UNCHANGED <<path, history, input, input_idx, history_idx, result, ret, child,
                   msgs, overflow_checks, spawned, free, history0>>

\* a guard that lets the cursor run past the end
RightMovesAlways(s, i) == TRUE

\* the guard of KeyCode::Right
RightMoves(s, i) == i < StrLen(s)

\* KeyCode::Right
KeyRight ==
    /\ Reads(Key("Right", ""))
    /\ seen' = SeenAfter("Right") /\ nav' = NavAfter("Right")
    /\ idx' = IF RightMoves(input, idx) THEN idx + 1 ELSE idx
    /\ Editing
    /\ UNCHANGED <<path, history, input, input_idx, history_idx, result, ret, child,
                   msgs, overflow_checks, spawned, free, history0>>

\* an Up that leaves the tail without storing the buffer
UpForgets(h, h_idx, i_idx, text) == h

\* an Up that resets the tail slot instead of storing the buffer
UpClearsTail(h, h_idx, i_idx, text) ==
    IF h_idx = i_idx THEN SetAt(h, i_idx, <<>>) ELSE h

\* Up at the tail stores the buffer in the tail slot
UpSnapshot(h, h_idx, i_idx, text) ==
    IF h_idx = i_idx THEN SetAt(h, i_idx, text) ELSE h

\* KeyCode::Up
KeyUp ==
    /\ Reads(Key("Up", ""))
    /\ seen' = SeenAfter("Up") /\ nav' = NavAfter("Up")
    /\ IF history_idx # 0
       THEN LET h == UpSnapshot(history, history_idx, input_idx, input)
            IN  /\ history' = h
                /\ history_idx' = history_idx - 1
                /\ input' = h[(history_idx - 1) + 1]
                /\ idx' = StrLen(h[(history_idx - 1) + 1])
       ELSE UNCHANGED <<history, history_idx, input, idx>>
    /\ Editing
    /\ UNCHANGED <<path, input_idx, result, ret, child, msgs, overflow_checks, spawned, free,
                   history0>>

\* a guard that lets Down step past the tail slot
DownMovesPastTail(h, h_idx) == h_idx < Len(h)

\* the guard of KeyCode::Down
DownMoves(h, h_idx) == h_idx < Len(h) - 1

\* KeyCode::Down; indexing history past its end panics
KeyDown ==
    /\ Reads(Key("Down", ""))
    /\ seen' = SeenAfter("Down") /\ nav' = NavAfter("Down")
    /\ IF ~DownMoves(history, history_idx)
       THEN Editing /\ UNCHANGED <<history_idx, input, idx>>
       ELSE IF history_idx + 1 >= Len(history)
       THEN /\ history_idx' = history_idx + 1
            /\ Panic("index")
            /\ UNCHANGED <<input, idx>>
       ELSE /\ history_idx' = history_idx + 1
            /\ input' = history[(history_idx + 1) + 1]
            /\ idx' = StrLen(history[(history_idx + 1) + 1])
            /\ Editing
    /\ UNCHANGED <<path, history, input_idx, result, ret, child, msgs, overflow_checks, spawned,
                   free, history0>>

\* any other key
KeyOther ==
    /\ Reads(Key("Other", ""))
    /\ seen' = SeenAfter("Other") /\ nav' = NavAfter("Other")
    /\ Editing
    /\ UNCHANGED <<path, history, input, idx, input_idx, history_idx, result, ret,
                   child, msgs, overflow_checks, spawned, free, history0>>

GetInput ==
    \/ BeginSession \/ TermError
    \/ KeyChar \/ KeyCtrlD \/ KeyCtrlC \/ KeyCtrlOther \/ KeyEnter \/ KeyBackspace
    \/ KeyLeft \/ KeyRight \/ KeyUp \/ KeyDown \/ KeyOther

----------------------------------------------------------------------------
(* Shell::handle_input *)

RECURSIVE TrimStart(_)
TrimStart(s) == IF s # <<>> /\ Head(s) = " " THEN TrimStart(Tail(s)) ELSE s

RECURSIVE TrimEnd(_)
TrimEnd(s) ==
    IF s # <<>> /\ s[Len(s)] = " " THEN TrimEnd(SubSeq(s, 1, Len(s) - 1)) ELSE s

\* str::trim
Trim(s) == TrimEnd(TrimStart(s))

RECURSIVE Split(_)
\* str::split(' '): the pieces between single spaces, empty pieces included
Split(s) ==
    IF \E i \in 1..Len(s) : s[i] = " "
    THEN LET i == CHOOSE i \in 1..Len(s) : s[i] = " " /\ \A j \in 1..(i - 1) : s[j] # " "
         IN  <<SubSeq(s, 1, i - 1)>> \o Split(SubSeq(s, i + 1, Len(s)))
    ELSE <<s>>

\* str::starts_with("//")
IsComment(s) == Len(s) >= 2 /\ s[1] = "/" /\ s[2] = "/"

\* the tokens handle_input matches on
Tokens(line) == Split(Trim(line))

ExitWord == <<"e", "x", "i", "t">>
CdWord == <<"c", "d">>

\* the value of HOME
Home == <<"/", "h">>

RECURSIVE ReplaceTilde(_)
\* str::replace('~', HOME)
ReplaceTilde(s) ==
    IF s = <<>> THEN <<>>
    ELSE (IF Head(s) = "~" THEN Home ELSE <<Head(s)>>) \o ReplaceTilde(Tail(s))

\* env::current_dir() after a successful set_current_dir(target)
CurrentDir(cwd, target) ==
    IF target # <<>> /\ target[1] = "/" THEN target ELSE cwd \o <<"/">> \o target

\* handle_input returns r to main
Returns(r) ==
    /\ ret' = r
    /\ pc' = "returned"
    /\ raw' = raw
    /\ fault' = fault

\* self.write(text)?; then Ok(false)
WriteThenContinue(text) ==
    \E ok \in BOOLEAN :
        IF ok THEN msgs' = Append(msgs, text) /\ Returns("Ok(false)")
        ELSE msgs' = msgs /\ Returns("Err")

IsCommand == pc = "handle_input" /\ result.kind = "Command"

Dispatched == IsCommand /\ result.text # <<>> /\ ~IsComment(result.text)

\* Input::Exit => Ok(true)
HandleExitSignal ==
    /\ pc = "handle_input"
    /\ result.kind = "Exit"
    /\ Returns("Ok(true)")
    /\ UNCHANGED <<path, history, input, idx, input_idx, history_idx, result, child,
                   msgs, overflow_checks, spawned, free, script, history0, seen, nav>>

\* an empty line or a comment: Ok(false)
HandleNoop ==
    /\ IsCommand
    /\ result.text = <<>> \/ IsComment(result.text)
    /\ Returns("Ok(false)")
    /\ UNCHANGED <<path, history, input, idx, input_idx, history_idx, result, child,
                   msgs, overflow_checks, spawned, free, script, history0, seen, nav>>

\* "exit": the farewell is written, the match ends, Ok(false)
HandleExit ==
    /\ Dispatched
    /\ Tokens(result.text)[1] = ExitWord
    /\ WriteThenContinue("See you later, Bye!")
    /\ UNCHANGED <<path, history, input, idx, input_idx, history_idx, result, child,
                   overflow_checks, spawned, free, script, history0, seen, nav>>

\* "cd"
HandleCd ==
    /\ Dispatched
    /\ Tokens(result.text)[1] = CdWord
    /\ LET n == Len(Tokens(result.text))
       IN  IF n = 1
           THEN WriteThenContinue("{path}") /\ path' = path
           ELSE IF n = 2
           THEN \E home_set \in BOOLEAN, chdir_ok \in BOOLEAN, cwd_ok \in BOOLEAN :
                  IF ~home_set \/ ~chdir_ok
                  THEN /\ Panic(IF ~home_set THEN "HOME" ELSE "set_current_dir")
                       /\ UNCHANGED <<path, ret, msgs>>
                  ELSE /\ path' = IF cwd_ok
                                  THEN CurrentDir(path, ReplaceTilde(Tokens(result.text)[2]))
                                  ELSE Home
                       /\ msgs' = msgs
                       /\ Returns("Ok(false)")
           ELSE /\ Returns("Ok(false)")
                /\ UNCHANGED <<path, msgs>>
    /\ UNCHANGED <<history, input, idx, input_idx, history_idx, result, child,
                   overflow_checks, spawned, free, script, history0, seen, nav>>

\* an error text that tells no spawn failure from another
SpawnErrorTextAny(kind) == "Error running command"

\* the text written for a spawn error, by err.kind()
SpawnErrorText(kind) ==
    IF kind = "NotFound" THEN "Unknown command" ELSE "Error running command"

\* any other first token: Command::new(..).spawn()
HandleSpawn ==
    /\ Dispatched
    /\ Tokens(result.text)[1] \notin {ExitWord, CdWord}
    /\ spawned' \in {"Ok", "NotFound", "Other"}
    /\ IF spawned' = "Ok"
       THEN /\ child' = TRUE
            /\ pc' = "spawned"
            /\ UNCHANGED <<raw, fault, ret, msgs>>
       ELSE /\ child' = child
            /\ WriteThenContinue(SpawnErrorText(spawned'))
    /\ UNCHANGED <<path, history, input, idx, input_idx, history_idx, result,
                   overflow_checks, free, script, history0, seen, nav>>

\* Ok(cmd): disable_raw_mode()?
SpawnedDisableRaw ==
    /\ pc = "spawned"
    /\ raw' = FALSE
    /\ pc' = "waiting"
    /\ UNCHANGED <<path, history, input, idx, input_idx, history_idx, result, ret, child,
                   msgs, overflow_checks, spawned, free, script, history0, seen, nav, fault>>

\* cmd.wait()?; enable_raw_mode()?; Ok(false)
WaitChild ==
    /\ pc = "waiting"
    /\ \E ok \in BOOLEAN :
         IF ok
         THEN /\ child' = FALSE
              /\ raw' = TRUE
              /\ ret' = "Ok(false)"
         ELSE /\ child' = child
              /\ raw' = raw
              /\ ret' = "Err"
    /\ pc' = "returned"
    /\ UNCHANGED <<path, history, input, idx, input_idx, history_idx, result, msgs,
                   overflow_checks, spawned, free, script, history0, seen, nav, fault>>

HandleInput ==
    \/ HandleExitSignal \/ HandleNoop \/ HandleExit \/ HandleCd \/ HandleSpawn
    \/ SpawnedDisableRaw \/ WaitChild

----------------------------------------------------------------------------
(* main: the read-eval loop *)

\* if sh.handle_input(input).unwrap() { break; }
MainAfterHandle ==
    /\ pc = "returned"
    /\ IF ret = "Err" THEN Panic("unwrap")
       ELSE IF ret = "Ok(true)"
       THEN pc' = "done" /\ raw' = MainTeardown /\ fault' = fault
       ELSE pc' = "loop" /\ raw' = raw /\ fault' = fault
    /\ UNCHANGED <<path, history, input, idx, input_idx, history_idx, result, ret, child,
                   msgs, overflow_checks, spawned, free, script, history0, seen, nav>>

Next == Welcome \/ GetInput \/ HandleInput \/ MainAfterHandle

Spec == Init /\ [][Next]_vars

----------------------------------------------------------------------------
(* Properties *)

\* get_input returned a command line that reaches the match on its first token
Submitted == result.kind = "Command"

FirstToken == Tokens(result.text)[1]

Matched == Submitted /\ result.text # <<>> /\ ~IsComment(result.text)

\* C1: once the farewell of a submitted `exit` line is written, handle_input
\* signals termination (Ok(true)) and the loop does not go back to get_input.
C1_ExitEndsSession ==
    (Matched /\ FirstToken = ExitWord /\ msgs = <<"See you later, Bye!">>)
        => (ret = "Ok(true)" /\ pc \in {"returned", "done"})

\* C2: with a history of at least one entry, a session of exactly Up then
\* Enter returns with the history it began with.
C2_ResubmitNoDuplicate ==
    (seen = "UpEnter" /\ Len(history0) >= 1 /\ pc = "handle_input")
        => history = history0

\* Enter was pressed and the newline written: the finalize step was entered
EnterPressed ==
    \/ pc = "handle_input" /\ Submitted
    \/ fault = "finalize: overflow"

\* C3: on every submit the history is reconciled by the single-step rule: the
\* pre-session history if the entry before the final position exists and
\* equals the buffer, else the pre-session history with the buffer appended.
C3_FinalizeRule ==
    EnterPressed =>
        IF history_idx >= 1 /\ history0[history_idx] = input
        THEN history = history0
        ELSE history = Append(history0, input)

C5_BackspaceAtStartIsNoop ==
    ~(idx = 0 /\ fault \in {"backspace: overflow", "backspace: remove"})

\* C6: a cd whose directory change fails never ends the process.
C6_FailedCdNotFatal == fault # "set_current_dir"

\* C7: after get_input and handle_input have run for an empty line or a
\* comment, nothing was spawned or written and the history is the history
\* the session began with.
C7_NoopLineLeavesHistory ==
    (pc = "returned" /\ Submitted /\ (result.text = <<>> \/ IsComment(result.text)))
        => (history = history0 /\ ~child /\ msgs = <<>>)

\* C8: the process never ends with raw mode enabled.
C8_RawOffAtExit == pc \in {"done", "panicked"} => ~raw

\* C8 witness: the process ended by the panic that follows a failed wait for
\* the child
C8_Witness == pc = "panicked" /\ fault = "unwrap" /\ child /\ ~raw

\* C9: raw mode is disabled whenever a spawned child exists.
C9_ChildSeesCookedTerminal == child => ~raw

\* C10: when handle_input returns from the external-command branch, raw mode
\* is enabled.
C10_RawRestoredOnReturn ==
    (pc = "returned" /\ Matched /\ FirstToken \notin {ExitWord, CdWord}) => raw

C12_TailSlotIsBuffer ==
    (pc = "editing" /\ history_idx = input_idx) => history[input_idx + 1] = input

\* C12: the tail slot is brought up to date when the user leaves the tail: a
\* key that moves the history position away from the tail stores the buffer in
\* the tail slot, and a key that moves it back to the tail shows the tail slot
\* as the buffer.
C12_TailSlotOnLeave ==
    [][(pc = "editing" /\ pc' = "editing" /\ history_idx' # history_idx)
          => /\ history_idx = input_idx => history'[input_idx + 1] = input
             /\ history_idx' = input_idx => input' = history'[input_idx + 1]]_vars

\* C12 witness: the user left the tail with text in the buffer and the tail
\* slot holds it
C12_Witness ==
    /\ pc = "editing"
    /\ history_idx < input_idx
    /\ history[input_idx + 1] # <<>>

\* C13: 0 <= history_idx <= input_idx, the tail slot exists while the session
\* is active (so Up and Down read existing entries), and Up at position 0 and
\* Down at the tail slot change neither history_idx nor the buffer nor the
\* cursor.
C13_PositionInRange ==
    /\ [](/\ 0 <= history_idx
          /\ history_idx <= input_idx
          /\ pc = "editing" => Len(history) = input_idx + 1)
    /\ [][((KeyUp /\ history_idx = 0) \/ (KeyDown /\ history_idx = input_idx))
            => UNCHANGED <<history_idx, input, idx, history>>]_vars

\* C13 witness: more Up keys than there are entries above: some were pressed
\* at position 0
C13_Witness ==
    /\ pc = "editing"
    /\ input_idx >= 1
    /\ history_idx = 0
    /\ nav.phase = "ups"
    /\ nav.depth > input_idx

\* C14: control+d ends the session with the exit signal exactly when the buffer
\* is empty, and it leaves history, buffer, cursor and history_idx as they
\* were (no finalize step); with a non-empty buffer the session stays in
\* editing.  The exit signal is produced by nothing else.
C14_CtrlDExitsOnEmpty ==
    /\ []((pc = "handle_input" /\ result.kind = "Exit") => input = <<>>)
    /\ [][KeyCtrlD
            => /\ UNCHANGED <<history, input, idx, history_idx, input_idx>>
               /\ (input = <<>>) <=> (pc' = "handle_input" /\ result'.kind = "Exit")
               /\ (input # <<>>) => pc' = "editing"]_vars

\* C14 witness: the exit signal left a tail slot that still holds the text
\* stored by an earlier Up; a finalize step would have overwritten it
C14_Witness ==
    /\ pc = "handle_input"
    /\ result.kind = "Exit"
    /\ input = <<>>
    /\ history[input_idx + 1] # <<>>

\* C15: when the program named by the first token is not found and the
\* message is written, handle_input has written exactly "Unknown command",
\* returns Ok(false), raw mode is still enabled and the loop goes on to the
\* next prompt; the spawn attempt leaves path and history alone.
C15_UnknownCommand ==
    /\ []((spawned = "NotFound" /\ ret # "Err")
            => /\ pc \in {"returned", "loop"}
               /\ msgs = <<"Unknown command">>
               /\ ret = "Ok(false)"
               /\ raw
               /\ ~child
               /\ fault = "")
    /\ [][HandleSpawn => UNCHANGED <<path, history>>]_vars

\* C15 witness: an unknown program was reported and the loop is back at the
\* prompt
C15_Witness ==
    /\ spawned = "NotFound"
    /\ pc = "loop"
    /\ FirstToken = <<"l", "s">>
    /\ msgs = <<"Unknown command">>

\* C16: in a session of character keys only, from the empty buffer, no insert
\* faults and after n inserts the cursor is n, the number of characters of the
\* buffer.
C16_TypingAppends ==
    seen = "Chars" => /\ fault # "insert"
                      /\ pc = "editing" => idx = Len(input)

\* C17: Enter completes without a fault in every state of a session, with
\* history_idx = 0 too.
C17_EnterCompletes == ~(pc = "panicked" /\ fault = "finalize: overflow")

\* C18: control+c empties the buffer and puts the cursor at 0, neither submits
\* nor exits (the session stays in editing, or ends with the I/O error of the
\* newline write), and leaves history and history_idx as they were; after Up
\* then control+c the buffer is empty (control+d would exit), the recalled
\* entry is still in history and the position is the one Up reached.
C18_CtrlCClears ==
    /\ [][KeyCtrlC
            => /\ input' = <<>>
               /\ idx' = 0
               /\ UNCHANGED <<history, history_idx, input_idx, result>>
               /\ pc' \in {"editing", "done"}
               /\ fault' = fault]_vars
    /\ []((seen = "UpCtrlC" /\ pc = "editing")
            => /\ CtrlDExits(input)
               /\ idx = 0
               /\ history = Append(history0, <<>>)
               /\ history_idx = IF input_idx = 0 THEN 0 ELSE input_idx - 1)

\* C18 witness: control+c pressed while the buffer held a recalled entry
C18_Witness ==
    /\ seen = "UpCtrlC"
    /\ pc = "editing"
    /\ history_idx < input_idx
    /\ history[history_idx + 1] # <<>>
    /\ input = <<>>

\* C19: a session never modifies the entries below the tail slot: at every
\* point the first Len(history0) entries of history are the history as it was
\* when the session began, and at most the tail slot follows them.
C19_PastEntriesKept ==
    /\ Len(history0) <= Len(history)
    /\ Len(history) <= Len(history0) + 1
    /\ SubSeq(history, 1, Len(history0)) = history0
    /\ pc \in {"editing", "handle_input"} => input_idx = Len(history0)

\* C19 witness: a recalled entry was edited in the buffer and submitted
C19_Witness ==
    /\ pc = "handle_input"
    /\ Submitted
    /\ history_idx < input_idx
    /\ input # history0[history_idx + 1]
    /\ history0 # <<>>

====
